---- MODULE Spec2Model ----
(***************************************************************************)
(* The AI Agent Dashboard (src/agent.py): a Streamlit script, main(), that *)
(* is re-run from the top on every user interaction.  Between runs only    *)
(* the widget values and the two collections of st.session_state survive.  *)
(* A button returns True only in the run its click triggered.              *)
(*                                                                         *)
(* A run is modelled as one step from the interaction to the first loop    *)
(* (or to the end of the script), one step per loop iteration, and one     *)
(* step from the end of a loop to the end of the script.                   *)
(*                                                                         *)
(* Abstractions: the table has one column (the selected one) and is the    *)
(* same file for a whole session; a search result is represented by its    *)
(* link; texts are represented by the kind of text they are; `errors`      *)
(* holds the st.error messages of main() only.  A loop that has started    *)
(* runs to its end: the source has no cancellation.                        *)
(***************************************************************************)
EXTENDS Integers, Sequences, FiniteSets, TLC

\* ------------------------------------------------------------------ bounds
MaxRows == 2

\* ---------------------------------------------------------------- constants
MaxResults == 5

Entities == {"a", "b"}

RECURSIVE SeqsUpTo(_, _)
SeqsUpTo(S, n) ==
  IF n = 0 THEN {<<>>}
  ELSE LET shorter == SeqsUpTo(S, n - 1)
       IN  shorter \cup {Append(s, x) : s \in {t \in shorter : Len(t) = n - 1}, x \in S}

\* The column values a user's table can hold.
Columns == SeqsUpTo(Entities, MaxRows)

\* The files a user can upload: every column as a UTF-8 CSV, and one file each
\* that decodes only as Latin-1, that decodes as neither, and that is no CSV.
Files ==
  [kind : {"utf8"}, column : Columns]
  \cup [kind : {"latin1", "undecodable", "malformed"}, column : {<<"b", "a">>}]

\* Python's None and a held value.
None == [isNone |-> TRUE, items |-> <<>>]
Some(s) == [isNone |-> FALSE, items |-> s]

\* Python truthiness of a session collection: neither None nor empty.
Truthy(c) == ~c.isNone /\ Len(c.items) > 0

Min(a, b) == IF a <= b THEN a ELSE b

\* ------------------------------------------------------------ Search Client
\* The pages the search proxy can answer with: the link of every div.g.
\* They yield no result, one result, or more than MaxResults.
Hits == { <<>>, <<"/rel">>, <<"http">>, <<"/rel", "http">>,
          <<"http", "http", "http", "http", "http", "http">> }

Responses ==
  {[status |-> s, hits |-> <<>>] : s \in {"transport_error", "http_error", "empty_body", "parse_error"}}
  \cup {[status |-> "ok", hits |-> h] : h \in Hits}

IsHttp(link) == link = "http"

search_web(response) ==
  IF response.status # "ok" THEN <<>>
  ELSE LET search_results == SelectSeq(response.hits, IsHttp)
       IN  SubSeq(search_results, 1, Min(Len(search_results), MaxResults))

\* -------------------------------------------------------- Extraction Client
LLMResponses == {"text", "blank", "error"}

extract_info(response) ==
  CASE response = "text"  -> "info"
    [] response = "blank" -> "No relevant information could be extracted."
    [] OTHER              -> "Error: Error with Groq API"

\* ------------------------------------------------------------- Table Loader
\* df, or None, or an exception that load_csv does not catch.
load_csv(f) ==
  CASE f.kind = "utf8"        -> [df |-> Some(f.column), exc |-> ""]
    [] f.kind = "latin1"      -> [df |-> Some(f.column), exc |-> ""]
    [] f.kind = "undecodable" -> [df |-> None, exc |-> ""]
    [] OTHER                  -> [df |-> None, exc |-> "ParserError"]

SheetOutcomes == {"ok", "no_data", "error"}

load_google_sheet(f, outcome) ==
  IF outcome = "ok" THEN Some(f.column) ELSE None

\* ------------------------------------------------------------- presentation
\* display_search_results reads results[1], the second element.
display_search_results(results) ==
  IF Len(results) >= 2 THEN "" ELSE "IndexError"

\* results_df.values.tolist(): one [entity, extracted_info] row per record.
values_tolist(records) ==
  [i \in 1..Len(records) |-> <<records[i].entity, records[i].extracted_info>>]

VARIABLES
  file,                    \* the user's data: [kind, column]
  processed_results,       \* st.session_state.processed_results
  current_search_results,  \* st.session_state.current_search_results
  data_source,             \* radio
  uploaded_file,           \* whether the uploader holds the file
  clicked,                 \* the button whose click triggered the latest run
  api_key,                 \* the API key the latest run checked, "unread" if none
  df,                      \* the table of the latest run
  pc,                      \* "idle", "search" or "extract"
  idx,                     \* rows the running loop has finished
  results,                 \* the running loop's local list
  buttons,                 \* the gated buttons the latest run rendered
  errors,                  \* st.error messages main() showed in the latest run
  exception,               \* the exception that ended the latest run, or ""
  log,                     \* progress reports and collaborator calls of the latest run
  sheet,                   \* the rows last appended to the origin spreadsheet
  lastSearch,              \* history: the batch the last completed search phase stored
  extractedFrom            \* history: entities of the batch the last completed extraction read

vars == <<file, processed_results, current_search_results, data_source, uploaded_file,
          clicked, api_key, df, pc, idx, results, buttons, errors, exception, log,
          sheet, lastSearch, extractedFrom>>

Init ==
  /\ file \in Files
  /\ processed_results = None
  /\ current_search_results = None
  /\ data_source = "Upload CSV"
  /\ uploaded_file = FALSE
  /\ clicked = ""
  /\ api_key = "unread"
  /\ df = None
  /\ pc = "idle"
  /\ idx = 0
  /\ results = <<>>
  /\ buttons = {}
  /\ errors = {}
  /\ exception = ""
  /\ log = <<>>
  /\ sheet = None
  /\ lastSearch = None
  /\ extractedFrom = None

\* --------------------------------------------------------------- the script
DataSources == {"Upload CSV", "Google Sheets"}

\* The values a text input can hold when a run reads it: empty or not.
Texts == {"", "text"}

\* What a run reads from the widgets.  The radio and the uploader are state;
\* the text inputs are read once per run, and a user can retype them before
\* any click, so their values are inputs of the interaction.
Widgets(click, credentials, url, serp, groq) ==
  [data_source |-> data_source, uploaded_file |-> uploaded_file, clicked |-> click,
   credentials_json |-> credentials, sheet_url |-> url,
   serp_api_key |-> serp, groq_api_key |-> groq]

\* The widget values the running script was started with, as far as the code
\* after a loop reads them.  credentials_json is read only when the data source
\* is 'Google Sheets', and no loop starts in such a run.
Running ==
  [data_source |-> data_source, uploaded_file |-> uploaded_file, clicked |-> clicked,
   credentials_json |-> "", sheet_url |-> "", serp_api_key |-> api_key,
   groq_api_key |-> api_key]

\* Mutation: the key is never reported missing.
KeyMissing_Never(key) == FALSE

\* `if not serp_api_key:` and `if not groq_api_key:`
KeyMissing(key) == key = ""

\* progress_bar.progress(k / n)
ProgressReport(k, n) == [ev |-> "progress", k |-> k, n |-> n]
\* A collaborator call for row k that returned n items.
ClientCall(k, n) == [ev |-> "call", k |-> k, n |-> n]

\* The script run ends: normally, at a `return`, or with an uncaught exception.
EndRun(exc, errs, btns) ==
  /\ pc' = "idle"
  /\ idx' = 0
  /\ results' = <<>>
  /\ exception' = exc
  /\ errors' = errs
  /\ buttons' = btns

AppendOutcomes == {"ok", "error"}

\* "5. Results" and "6. Export Results": pr is the held processed_results.
ResultsSection(w, pr, errs, btns) ==
  IF Truthy(pr)
  THEN LET canUpdate == w.data_source = "Google Sheets" /\ w.credentials_json # ""
           btns2 == btns \cup (IF canUpdate THEN {"Update Google Sheet"} ELSE {})
       IN  IF canUpdate /\ w.clicked = "Update Google Sheet"
           THEN \E outcome \in AppendOutcomes :
                  IF outcome = "ok"
                  THEN /\ sheet' = Some(values_tolist(pr.items))
                       /\ EndRun("", errs, btns2)
                  ELSE /\ sheet' = sheet
                       /\ EndRun("", errs \cup {"Error updating Google Sheet"}, btns2)
           ELSE /\ sheet' = sheet
                /\ EndRun("", errs, btns2)
  ELSE /\ sheet' = sheet
       /\ EndRun("", errs, btns)

\* `if st.session_state.current_search_results:` guards section 4.
SectionShown(csr) == Truthy(csr)

\* "4. Search Results and Custom Prompt": csr is the held current_search_results.
PromptSection(w, csr, pr, errs, btns) ==
  IF SectionShown(csr)
  THEN LET first_result == csr.items[1]
           exc == display_search_results(first_result.search_results)
           btns2 == btns \cup {"Process with LLM"}
       IN  IF exc # ""
           THEN /\ sheet' = sheet
                /\ EndRun(exc, errs, btns)
           ELSE IF w.clicked = "Process with LLM"
                THEN IF KeyMissing(w.groq_api_key)
                     THEN /\ sheet' = sheet
                          /\ EndRun("", errs \cup {"Please provide Groq API key"}, btns2)
                     ELSE /\ pc' = "extract"
                          /\ idx' = 0
                          /\ results' = <<>>
                          /\ exception' = ""
                          /\ errors' = errs
                          /\ buttons' = btns2
                          /\ sheet' = sheet
                ELSE ResultsSection(w, pr, errs, btns2)
  ELSE ResultsSection(w, pr, errs, btns)

\* "1. Data Input": the table of this run.
LoadData(w, outcome) ==
  IF w.data_source = "Upload CSV"
  THEN IF w.uploaded_file THEN load_csv(file) ELSE [df |-> None, exc |-> ""]
  ELSE IF w.clicked = "Connect to Google Sheets" /\ w.credentials_json # "" /\ w.sheet_url # ""
       THEN [df |-> load_google_sheet(file, outcome), exc |-> ""]
       ELSE [df |-> None, exc |-> ""]

\* The API key whose check this run reaches, "unread" if it reaches none.
KeyRead(w, loaded, csr) ==
  IF loaded.exc # "" \/ loaded.df.isNone THEN "unread"
  ELSE IF w.clicked = "Run Web Search" THEN w.serp_api_key
  ELSE IF /\ w.clicked = "Process with LLM"
          /\ SectionShown(csr)
          /\ display_search_results(csr.items[1].search_results) = ""
       THEN w.groq_api_key
  ELSE "unread"

\* main() from the top, with widget values w, up to the first loop or the end.
ScriptRun(w, outcome) ==
  LET loaded == LoadData(w, outcome)
  IN  /\ data_source' = w.data_source
      /\ uploaded_file' = w.uploaded_file
      /\ clicked' = w.clicked
      /\ api_key' = KeyRead(w, loaded, current_search_results)
      /\ df' = loaded.df
      /\ log' = <<>>
      /\ UNCHANGED <<file, processed_results, current_search_results, lastSearch, extractedFrom>>
      /\ IF loaded.exc # ""
         THEN /\ sheet' = sheet
              /\ EndRun(loaded.exc, {}, {})
         ELSE IF loaded.df.isNone
              THEN /\ sheet' = sheet
                   /\ EndRun("", {}, {})
              ELSE IF w.clicked = "Run Web Search"
                   THEN IF KeyMissing(w.serp_api_key)
                        THEN /\ sheet' = sheet
                             /\ EndRun("", {"Please provide ScraperAPI key"}, {"Run Web Search"})
                        ELSE /\ pc' = "search"
                             /\ idx' = 0
                             /\ results' = <<>>
                             /\ exception' = ""
                             /\ errors' = {}
                             /\ buttons' = {"Run Web Search"}
                             /\ sheet' = sheet
                   ELSE PromptSection(w, current_search_results, processed_results,
                                      {}, {"Run Web Search"})

\* --------------------------------------------------------- user interactions
\* Each interaction re-runs the script; only a click makes a button True.
ChooseDataSource ==
  /\ pc = "idle"
  /\ \E s \in DataSources \ {data_source} :
       ScriptRun([Widgets("", "", "", "", "") EXCEPT !.data_source = s], "ok")

\* Upload the file, or remove it from the uploader.
UploadFile ==
  /\ pc = "idle"
  /\ data_source = "Upload CSV"
  /\ ScriptRun([Widgets("", "", "", "", "") EXCEPT !.uploaded_file = ~uploaded_file], "ok")

\* Retype a text input or pick a column: a run in which no button is True.
EditInput ==
  /\ pc = "idle"
  /\ data_source = "Google Sheets" \/ "Run Web Search" \in buttons
  /\ \E credentials \in Texts :
       ScriptRun(Widgets("", credentials, "", "", ""), "ok")

ClickConnect ==
  /\ pc = "idle"
  /\ data_source = "Google Sheets"
  /\ \E credentials \in Texts, url \in Texts, outcome \in SheetOutcomes :
       ScriptRun(Widgets("Connect to Google Sheets", credentials, url, "", ""), outcome)

ClickRunWebSearch ==
  /\ pc = "idle"
  /\ "Run Web Search" \in buttons
  /\ \E serp \in Texts :
       ScriptRun(Widgets("Run Web Search", "", "", serp, ""), "ok")

ClickProcessLLM ==
  /\ pc = "idle"
  /\ "Process with LLM" \in buttons
  /\ \E groq \in Texts :
       ScriptRun(Widgets("Process with LLM", "", "", "", groq), "ok")

ClickUpdateSheet ==
  /\ pc = "idle"
  /\ "Update Google Sheet" \in buttons
  /\ \E credentials \in Texts :
       ScriptRun(Widgets("Update Google Sheet", credentials, "", "", ""), "ok")

\* ------------------------------------------------------------- search phase
\* Mutation: the record is appended whatever the search returned.
SearchLoopBody_Unchecked(rs, entity, search_results) ==
  Append(rs, [entity |-> entity, search_results |-> search_results])

\* `if search_results: results.append({...})`
SearchLoopBody(rs, entity, search_results) ==
  IF Len(search_results) > 0
  THEN Append(rs, [entity |-> entity, search_results |-> search_results])
  ELSE rs

\* Mutation: a row whose search returned nothing is tried again.
SearchIteration_Retry(response) ==
  /\ pc = "search"
  /\ idx < Len(df.items)
  /\ log' = log \o <<ProgressReport(idx + 1, Len(df.items)),
                     ClientCall(idx + 1, Len(search_web(response)))>>
  /\ results' = SearchLoopBody(results, df.items[idx + 1], search_web(response))
  /\ idx' = IF Len(search_web(response)) > 0 THEN idx + 1 ELSE idx
  /\ UNCHANGED <<file, processed_results, current_search_results, data_source,
                 uploaded_file, clicked, api_key, df, pc, buttons, errors, exception,
                 sheet, lastSearch, extractedFrom>>

\* Mutation: the batch is stored row by row instead of once after the loop.
SearchIteration_Incremental(response) ==
  /\ pc = "search"
  /\ idx < Len(df.items)
  /\ log' = log \o <<ProgressReport(idx + 1, Len(df.items)),
                     ClientCall(idx + 1, Len(search_web(response)))>>
  /\ results' = SearchLoopBody(results, df.items[idx + 1], search_web(response))
  /\ current_search_results' = Some(results')
  /\ idx' = idx + 1
  /\ UNCHANGED <<file, processed_results, data_source,
                 uploaded_file, clicked, api_key, df, pc, buttons, errors, exception,
                 sheet, lastSearch, extractedFrom>>

\* One iteration of `for idx, entity in enumerate(df[selected_column])`.
SearchIteration(response) ==
  /\ pc = "search"
  /\ idx < Len(df.items)
  /\ log' = log \o <<ProgressReport(idx + 1, Len(df.items)),
                     ClientCall(idx + 1, Len(search_web(response)))>>
  /\ results' = SearchLoopBody(results, df.items[idx + 1], search_web(response))
  /\ idx' = idx + 1
  /\ UNCHANGED <<file, processed_results, current_search_results, data_source,
                 uploaded_file, clicked, api_key, df, pc, buttons, errors, exception,
                 sheet, lastSearch, extractedFrom>>

SearchRow == \E response \in Responses : SearchIteration(response)

\* Mutation: the new batch is merged into the held one.
SearchDone_Merge ==
  /\ pc = "search"
  /\ idx = Len(df.items)
  /\ current_search_results' = Some(current_search_results.items \o results)
  /\ lastSearch' = Some(results)
  /\ UNCHANGED <<file, processed_results, data_source, uploaded_file, clicked, api_key,
                 df, log, extractedFrom>>
  /\ PromptSection(Running, Some(current_search_results.items \o results),
                   processed_results, errors, buttons)

\* The loop is over: store the batch, then the rest of the script.
SearchDone ==
  /\ pc = "search"
  /\ idx = Len(df.items)
  /\ current_search_results' = Some(results)
  /\ lastSearch' = Some(results)
  /\ UNCHANGED <<file, processed_results, data_source, uploaded_file, clicked, api_key,
                 df, log, extractedFrom>>
  /\ PromptSection(Running, Some(results), processed_results, errors, buttons)

\* --------------------------------------------------------- extraction phase
\* Mutation: an entry whose model call failed is dropped.
ExtractLoopBody_DropErrors(rs, entity, extracted_info) ==
  IF extracted_info = "Error: Error with Groq API"
  THEN rs
  ELSE Append(rs, [entity |-> entity, extracted_info |-> extracted_info])

\* Mutation: the record is put at the front of the list.
ExtractLoopBody_Prepend(rs, entity, extracted_info) ==
  <<[entity |-> entity, extracted_info |-> extracted_info]>> \o rs

\* `results.append({"entity": ..., "extracted_info": ...})`
ExtractLoopBody(rs, entity, extracted_info) ==
  Append(rs, [entity |-> entity, extracted_info |-> extracted_info])

EntitiesOf(records) == [i \in 1..Len(records) |-> records[i].entity]

\* One iteration of `for idx, result in enumerate(current_search_results)`.
ExtractIteration(response) ==
  /\ pc = "extract"
  /\ idx < Len(current_search_results.items)
  /\ log' = log \o <<ProgressReport(idx + 1, Len(current_search_results.items)),
                     ClientCall(idx + 1, 1)>>
  /\ results' = ExtractLoopBody(results, current_search_results.items[idx + 1].entity,
                                extract_info(response))
  /\ idx' = idx + 1
  /\ UNCHANGED <<file, processed_results, current_search_results, data_source,
                 uploaded_file, clicked, api_key, df, pc, buttons, errors, exception,
                 sheet, lastSearch, extractedFrom>>

ExtractRow == \E response \in LLMResponses : ExtractIteration(response)

\* The loop is over: store the records, then the rest of the script.
ExtractDone ==
  /\ pc = "extract"
  /\ idx = Len(current_search_results.items)
  /\ processed_results' = Some(results)
  /\ extractedFrom' = Some(EntitiesOf(current_search_results.items))
  /\ UNCHANGED <<file, current_search_results, data_source, uploaded_file, clicked,
                 api_key, df, log, lastSearch>>
  /\ ResultsSection(Running, Some(results), errors, buttons)

Next ==
  \/ ChooseDataSource
  \/ UploadFile
  \/ EditInput
  \/ ClickConnect
  \/ ClickRunWebSearch
  \/ ClickProcessLLM
  \/ ClickUpdateSheet
  \/ SearchRow
  \/ SearchDone
  \/ ExtractRow
  \/ ExtractDone

Spec == Init /\ [][Next]_vars

\* ------------------------------------------------------------------ claims
RECURSIVE IsSubseq(_, _)
\* s is t with some elements left out, the order kept.
IsSubseq(s, t) ==
  IF Len(s) = 0 THEN TRUE
  ELSE IF Len(t) = 0 THEN FALSE
  ELSE IF Head(s) = Head(t) THEN IsSubseq(Tail(s), Tail(t))
  ELSE IsSubseq(s, Tail(t))

IsProgress(e) == e.ev = "progress"
IsCall(e) == e.ev = "call"
IsFound(e) == e.ev = "call" /\ e.n > 0

\* The latest run was a search phase (an extraction phase) that ran to its end.
SearchCompleted ==
  pc = "idle" /\ clicked = "Run Web Search" /\ api_key \notin {"", "unread"}
ExtractionCompleted ==
  pc = "idle" /\ clicked = "Process with LLM" /\ api_key \notin {"", "unread"}

\* C1: the batch a search phase builds and stores has entities that are an
\* order-preserving subsequence of the input column, and no record of it has
\* an empty search_results sequence.
C1_BatchIsSubsequence ==
  /\ pc = "search" =>
       /\ IsSubseq(EntitiesOf(results), SubSeq(df.items, 1, idx))
       /\ \A i \in 1..Len(results) : Len(results[i].search_results) > 0
  /\ ~current_search_results.isNone =>
       /\ IsSubseq(EntitiesOf(current_search_results.items), file.column)
       /\ \A i \in 1..Len(current_search_results.items) :
            Len(current_search_results.items[i].search_results) > 0

\* A search phase over two rows stored a batch that leaves out the first row.
C1_Witness ==
  /\ SearchCompleted
  /\ Len(df.items) = 2
  /\ Len(log) = 4 /\ log[2].n = 0 /\ log[4].n > 0
  /\ Len(current_search_results.items) = 1
  /\ current_search_results.items[1].entity = df.items[2]

\* C2: the extraction phase emits exactly one record per batch record, in the
\* batch's order, whatever the model call returned; what it stores has the
\* batch's length and the i-th record has the i-th batch entity.
C2_OneRecordPerBatchRecord ==
  /\ pc = "extract" =>
       /\ Len(results) = idx
       /\ EntitiesOf(results) = SubSeq(EntitiesOf(current_search_results.items), 1, idx)
  /\ ExtractionCompleted =>
       /\ ~processed_results.isNone
       /\ Len(processed_results.items) = Len(current_search_results.items)
       /\ EntitiesOf(processed_results.items) = EntitiesOf(current_search_results.items)

\* An extraction over two batch records whose first model call failed stored
\* two records, the first with the error text.
C2_Witness ==
  /\ ExtractionCompleted
  /\ Len(current_search_results.items) = 2
  /\ Len(processed_results.items) = 2
  /\ processed_results.items[1].extracted_info = "Error: Error with Groq API"
  /\ processed_results.items[2].extracted_info = "info"

\* C3: an extraction phase runs only when a search phase has completed and
\* stored a batch, and the batch it reads is the one the most recent completed
\* search phase stored.
C3_ExtractionReadsLatestBatch ==
  pc = "extract" =>
    /\ ~lastSearch.isNone
    /\ current_search_results = lastSearch

\* An extraction is running over a batch that differs from the one the
\* previous extraction read: a later search phase has replaced it.
C3_Witness ==
  /\ pc = "extract"
  /\ idx = 1
  /\ ~extractedFrom.isNone
  /\ extractedFrom.items # EntitiesOf(current_search_results.items)

\* C4 (as claimed): once a search phase has stored a batch whose first record
\* has 1 to 5 search results, a run that renders the sample preview ends
\* without an exception.
C4_PreviewNeverRaises ==
  ( /\ pc = "idle"
    /\ ~df.isNone
    /\ Truthy(current_search_results)
    /\ Len(current_search_results.items[1].search_results) \in 1..MaxResults )
  => exception = ""

\* C5: a phase triggered with an empty API key ends the run at once: no row is
\* visited, no collaborator is called, an error message is shown, and both
\* held collections keep their values.
C5_MissingKeyAborts ==
  [][ ( /\ pc = "idle"
        /\ clicked' \in {"Run Web Search", "Process with LLM"}
        /\ api_key' = "" )
      => /\ pc' = "idle"
         /\ log' = <<>>
         /\ errors' # {}
         /\ current_search_results' = current_search_results
         /\ processed_results' = processed_results ]_vars

\* 'Process with LLM' was clicked with an empty key while both collections
\* were held, and 'Run Web Search' is still offered.
C5_Witness ==
  /\ pc = "idle"
  /\ clicked = "Process with LLM"
  /\ api_key = ""
  /\ "Please provide Groq API key" \in errors
  /\ Truthy(current_search_results)
  /\ Truthy(processed_results)

\* C6 (as claimed): with 'Google Sheets' as the data source, the run that a
\* click on 'Run Web Search' triggers works on the table that 'Connect to
\* Google Sheets' loaded, so that the sequence connect, search, extract,
\* update can go on to the append.
C6_SheetTableSurvivesConnect ==
  (data_source = "Google Sheets" /\ clicked = "Run Web Search") => ~df.isNone

\* No run ever reaches the append to the origin spreadsheet.
SheetNeverAppended == sheet.isNone

\* C7: during a search phase the Search Client has been called exactly once
\* for each row visited so far, in row order; the batch holds one record for
\* each call that returned results and none for the others; and a phase that
\* ends has visited every row.
C7_OneCallPerRow ==
  LET calls == SelectSeq(log, IsCall)
  IN  /\ (pc = "search" \/ SearchCompleted) =>
           /\ \A i \in 1..Len(calls) : calls[i].k = i
           /\ Len(calls) = (IF pc = "search" THEN idx ELSE Len(df.items))
      /\ pc = "search" =>
           /\ idx <= Len(df.items)
           /\ Len(results) = Len(SelectSeq(log, IsFound))
      /\ SearchCompleted =>
           Len(current_search_results.items) = Len(SelectSeq(log, IsFound))

\* A search phase went on to the second row after the first row's call failed.
C7_Witness ==
  /\ pc = "search"
  /\ idx = 2
  /\ Len(log) = 4
  /\ log[2].ev = "call" /\ log[2].k = 1 /\ log[2].n = 0
  /\ log[4].ev = "call" /\ log[4].k = 2 /\ log[4].n = MaxResults

\* C8: a held collection changes only in the step that ends a phase's loop,
\* and then to the whole list the loop built.
C8_WholesaleReplacement ==
  [][ /\ current_search_results' # current_search_results =>
           /\ pc = "search"
           /\ idx = Len(df.items)
           /\ current_search_results' = Some(results)
      /\ processed_results' # processed_results =>
           /\ pc = "extract"
           /\ idx = Len(current_search_results.items)
           /\ processed_results' = Some(results) ]_vars

\* A search loop has built a record while the session still holds the batch
\* of an earlier search.
C8_Witness ==
  /\ pc = "search"
  /\ idx = 1
  /\ Len(results) = 1
  /\ Truthy(current_search_results)
  /\ current_search_results.items # results

\* C9 (as claimed): the k-th progress report of a phase is issued after the
\* k-th row's collaborator call has returned; the reported fractions increase
\* strictly, the first is above 0, and a phase that ends has reported 1.0 last.
C9_ProgressAfterRow ==
  LET reports == SelectSeq(log, IsProgress)
  IN  /\ \A i \in 1..Len(log) :
           log[i].ev = "progress" =>
             \E j \in 1..(i - 1) : log[j].ev = "call" /\ log[j].k = log[i].k
      /\ \A i \in 1..(Len(reports) - 1) :
           reports[i].k * reports[i + 1].n < reports[i + 1].k * reports[i].n
      /\ Len(reports) > 0 => reports[1].k > 0
      /\ ((SearchCompleted \/ ExtractionCompleted) /\ Len(reports) > 0) =>
           reports[Len(reports)].k = reports[Len(reports)].n

\* C10 (as claimed): whenever processed_results is non-empty it has the length
\* and the entity sequence of the batch held in current_search_results.
C10_ResultsMatchCurrentBatch ==
  Truthy(processed_results) =>
    /\ ~current_search_results.isNone
    /\ Len(processed_results.items) = Len(current_search_results.items)
    /\ EntitiesOf(processed_results.items) = EntitiesOf(current_search_results.items)

\* C10 (amended): whenever processed_results is non-empty it has the length
\* and the entity sequence of the batch that current_search_results held when
\* the most recent extraction phase ended.
C10_ResultsMatchExtractedBatch ==
  Truthy(processed_results) =>
    /\ ~extractedFrom.isNone
    /\ Len(processed_results.items) = Len(extractedFrom.items)
    /\ EntitiesOf(processed_results.items) = extractedFrom.items

\* A later search phase has replaced the batch; the held records are those of
\* the batch before it.
C10_Witness ==
  /\ SearchCompleted
  /\ Truthy(processed_results)
  /\ Len(processed_results.items) = 2
  /\ Len(current_search_results.items) = 1

====
